---- MODULE Spec2Model ----
(***************************************************************************)
(* A model of the Notion proxy server (src/index.js, and its serverless    *)
(* variant src/unnamed/part_000): three POST routes, each validating the   *)
(* presence of its body fields, awaiting one call of the Notion client,    *)
(* reshaping the result and replying with JSON.  The messages are those of *)
(* the first server of src/index.js (lines 1-87), which part_000 shares.   *)
(*                                                                         *)
(* Spec     the server: NumReq requests, each suspended at its await and   *)
(*          resumed in any order.                                          *)
(* SpecMap  the reshaping code alone (the two `results.map` callbacks and  *)
(*          getProp), applied to bounded upstream responses.               *)
(***************************************************************************)
EXTENDS Integers, Sequences, FiniteSets, TLC

VARIABLES
    pc,        \* per request: "idle", "awaiting", "done", "unhandled"
    req,       \* per request: the route and the destructured req.body
    upstream,  \* per request: how the awaited client call settled
    res,       \* per request: the response sent (status, JSON body)
    sent,      \* per request: how many responses have been sent
    calls,     \* per request: the client calls the handler has issued
    log,       \* per request: what the handler gave to console.error
    store,     \* the pages of the upstream workspace (written by pages.update)
    alive,     \* FALSE once the process has died of an unhandled rejection
    response,  \* SpecMap: the upstream response handed to a map callback
    mapped     \* SpecMap: what the reshaping produced from it

vars == <<pc, req, upstream, res, sent, calls, log, store, alive, response, mapped>>

serverVars == <<pc, req, upstream, res, sent, calls, log, store, alive>>

mapVars == <<response, mapped>>

-----------------------------------------------------------------------------
(* Bounds *)

\* concurrent requests
NumReq == 2

\* longest upstream result list handed to a map callback
MaxResults == 2

\* longest "Media" URL string, in characters
MaxLen == 6

-----------------------------------------------------------------------------
(* JavaScript values.  Every value is a record tagged by t, so that any two *)
(* can be compared.                                                         *)

Undefined == [t |-> "undefined"]

Null == [t |-> "null"]

\* a string whose characters the code never inspects
Str(s) == [t |-> "string", v |-> s]

\* a string the code splits and trims: its characters, one by one
Chars(cs) == [t |-> "string", chars |-> cs]

Nullish(x) == x.t \in {"undefined", "null"}

\* !x for the values above
Falsy(x) ==
    \/ Nullish(x)
    \/ x.t = "string" /\ (IF "chars" \in DOMAIN x THEN x.chars = <<>> ELSE x.v = "")

\* obj[key]: undefined when the object has no such key
Field(obj, key) == IF key \in DOMAIN obj THEN obj[key] ELSE Undefined

\* an array
Arr(items) == [t |-> "array", items |-> items]

\* the value of an expression that threw a TypeError
Threw == [t |-> "TypeError"]

IsThrew(x) == x.t = "TypeError"

SeqsUpTo(n, S) == UNION {[1..k -> S] : k \in 0..n}

-----------------------------------------------------------------------------
(* POST /api/get-databases: the map callback *)

UntitledDatabase == "Untitled Database"

\* arr[0]?.[sub] : undefined for an empty array
FirstSub(arr, sub) == IF Len(arr) = 0 THEN Undefined ELSE Field(arr[1], sub)

\* mutant of DatabaseTitle: the default only for an empty array
DatabaseTitleFirstOnly(db) ==
    IF Len(db.title) = 0 THEN Str(UntitledDatabase) ELSE Field(db.title[1], "plain_text")

\* db.title[0]?.plain_text || 'Untitled Database'
DatabaseTitle(db) ==
    LET first == FirstSub(db.title, "plain_text")
    IN  IF Falsy(first) THEN Str(UntitledDatabase) ELSE first

DatabaseSummary(db) == [t |-> "object", id |-> db.id, title |-> DatabaseTitle(db)]

\* response.results.map(db => ({ id, title }))
MapDatabases(results) == Arr([i \in 1..Len(results) |-> DatabaseSummary(results[i])])

-----------------------------------------------------------------------------
(* POST /api/get-posts: getProp and the map callback *)

\* mutant of GetProp: an absent title or rich-text property reads as ''
GetPropAbsentIsEmpty(properties, name, type) ==
    IF name \notin DOMAIN properties
    THEN IF type \in {"title", "rich_text"} THEN Str("") ELSE Null
    ELSE IF type \in {"title", "rich_text"}
    THEN IF type \notin DOMAIN properties[name]
         THEN Threw
         ELSE LET first == FirstSub(properties[name][type], "plain_text")
              IN  IF Falsy(first) THEN Str("") ELSE first
    ELSE IF type = "url" THEN Field(properties[name], "url")
    ELSE IF type = "date"
    THEN LET d == Field(properties[name], "date")
         IN  IF Nullish(d) THEN Undefined ELSE Field(d, "start")
    ELSE Null

\* getProp(name, type) with subType = 'plain_text'
GetProp(properties, name, type) ==
    IF name \notin DOMAIN properties THEN Null
    ELSE IF type \in {"title", "rich_text"}
    THEN \* properties[name][type][0]?.[subType] || ''
         IF type \notin DOMAIN properties[name]
         THEN Threw      \* undefined[0]
         ELSE LET first == FirstSub(properties[name][type], "plain_text")
              IN  IF Falsy(first) THEN Str("") ELSE first
    ELSE IF type = "url" THEN Field(properties[name], "url")
    ELSE IF type = "date"
    THEN \* properties[name].date?.start
         LET d == Field(properties[name], "date")
         IN  IF Nullish(d) THEN Undefined ELSE Field(d, "start")
    ELSE Null

\* the whitespace trim() removes; the space is the only one in Alphabet
IsSpace(c) == c \in {" "}

RECURSIVE TrimStart(_)
TrimStart(s) ==
    IF s = <<>> THEN s
    ELSE IF IsSpace(Head(s)) THEN TrimStart(Tail(s)) ELSE s

RECURSIVE TrimEnd(_)
TrimEnd(s) ==
    IF s = <<>> THEN s
    ELSE IF IsSpace(s[Len(s)]) THEN TrimEnd(SubSeq(s, 1, Len(s) - 1)) ELSE s

\* mutant of Trim: trailing whitespace kept
TrimStartOnly(s) == TrimStart(s)

\* String.prototype.trim
Trim(s) == TrimEnd(TrimStart(s))

\* String.prototype.split(','): never empty, "" gives [""]
RECURSIVE Split(_)
Split(s) ==
    IF s = <<>> THEN << <<>> >>
    ELSE LET rest == Split(Tail(s))
         IN  IF Head(s) = ","
             THEN << <<>> >> \o rest
             ELSE << <<Head(s)>> \o Head(rest) >> \o Tail(rest)

\* (getProp('Media', 'url') || '').split(',').map(u => u.trim()).filter(Boolean)
Media(properties) ==
    LET url == GetProp(properties, "Media", "url")
        text == IF Falsy(url) THEN <<>> ELSE url.chars
        segments == Split(text)
        trimmed == [i \in 1..Len(segments) |-> Trim(segments[i])]
    IN  Arr(SelectSeq(trimmed, LAMBDA u : u # <<>>))

\* the map callback of get-posts; a throwing getProp ends the callback
PostRecord(page) ==
    LET headline == GetProp(page.properties, "Headline", "title")
        caption == GetProp(page.properties, "Caption", "rich_text")
    IN  IF IsThrew(headline) \/ IsThrew(caption) THEN Threw
        ELSE [t |-> "object",
              id |-> page.id,
              headline |-> headline,
              media |-> Media(page.properties),
              caption |-> caption,
              date |-> GetProp(page.properties, "Scheduled Date", "date")]

\* mutant of MapPosts: the records in reverse order
MapPostsReversed(results) ==
    IF \E i \in 1..Len(results) : IsThrew(PostRecord(results[i])) THEN Threw
    ELSE Arr([i \in 1..Len(results) |-> PostRecord(results[Len(results) + 1 - i])])

\* response.results.map(page => ...): throws when the callback throws
MapPosts(results) ==
    IF \E i \in 1..Len(results) : IsThrew(PostRecord(results[i])) THEN Threw
    ELSE Arr([i \in 1..Len(results) |-> PostRecord(results[i])])

\* JSON.stringify of an object: a key whose value is undefined is left out
JsonObject(o) == [k \in {k \in DOMAIN o \ {"t"} : o[k].t # "undefined"} |-> o[k]]

\* res.json(array): the body sent for an array of flat objects
JsonArray(arr) == [i \in 1..Len(arr.items) |-> JsonObject(arr.items[i])]

-----------------------------------------------------------------------------
(* Upstream objects the map callbacks are applied to *)

\* a rich-text fragment
Frag(s) == [plain_text |-> Str(s)]

TitleLists == {<<>>, <<Frag("Roadmap")>>, <<Frag("")>>, <<Frag("Roadmap"), Frag("2024")>>}

DatabaseIds == {"db1", "db2"}

Databases == {[id |-> Str(i), title |-> l] : i \in DatabaseIds, l \in TitleLists}

Absent == [type |-> "absent"]

TitleProp(l) == [type |-> "title", title |-> l]

RichTextProp(l) == [type |-> "rich_text", rich_text |-> l]

UrlProp(u) == [type |-> "url", url |-> u]

DateProp(d) == [type |-> "date", date |-> d]

DateValue(start) == [t |-> "object", start |-> Str(start), end |-> Null]

PropertyNames == {"Headline", "Media", "Caption", "Scheduled Date"}

\* a page whose property bag holds the properties that are not Absent
Page(id, headline, media, caption, date) ==
    LET pick(n) == CASE n = "Headline" -> headline
                     [] n = "Media" -> media
                     [] n = "Caption" -> caption
                     [] OTHER -> date
    IN  [id |-> Str(id),
         properties |-> [n \in {m \in PropertyNames : pick(m).type # "absent"} |-> pick(n)]]

HeadlineProps ==
    {Absent, RichTextProp(<<Frag("Launch")>>)}
        \cup {TitleProp(l) : l \in {<<>>, <<Frag("Launch")>>, <<Frag("")>>,
                                    <<Frag("Launch"), Frag("day")>>}}

CaptionProps ==
    {Absent, TitleProp(<<Frag("Soon")>>), RichTextProp(<<>>), RichTextProp(<<Frag("Soon")>>)}

DateProps == {Absent, DateProp(Null), DateProp(DateValue("2024-05-01"))}

Alphabet == {"a", "b", " ", ","}

UrlStrings == SeqsUpTo(MaxLen, Alphabet)

ExampleUrl == <<"a", ",", " ", "b", " ", ",">>

\* pages that vary the title, rich-text and date properties
PropPages ==
    {Page("p1", h, m, c, d) : h \in HeadlineProps,
                              m \in {Absent, UrlProp(Null), UrlProp(Chars(ExampleUrl))},
                              c \in CaptionProps, d \in DateProps}

\* pages that vary the "Media" URL
MediaPages ==
    {Page("p1", TitleProp(<<Frag("Launch")>>), UrlProp(Chars(u)), Absent, Absent) :
        u \in UrlStrings}

\* pages that vary the id, for result lists
ListPages ==
    {Page(i, h, Absent, Absent, DateProp(Null)) :
        i \in {"p1", "p2"}, h \in {TitleProp(<<Frag("Launch")>>), RichTextProp(<<>>)}}

Responses ==
    {[kind |-> "databases", results |-> l] : l \in SeqsUpTo(MaxResults, Databases)}
        \cup {[kind |-> "posts", results |-> <<p>>] : p \in PropPages \cup MediaPages}
        \cup {[kind |-> "posts", results |-> l] : l \in SeqsUpTo(MaxResults, ListPages)}

NoResponse == [kind |-> "none"]

NotMapped == [t |-> "pending"]

\* what res.json is given, or Threw
Reshaped(r) ==
    IF r.kind = "databases" THEN [t |-> "json", body |-> JsonArray(MapDatabases(r.results)),
                                  raw |-> MapDatabases(r.results).items]
    ELSE LET posts == MapPosts(r.results)
         IN  IF IsThrew(posts) THEN Threw
             ELSE [t |-> "json", body |-> JsonArray(posts), raw |-> posts.items]

-----------------------------------------------------------------------------
(* The request bodies, and how the awaited client call can settle *)

Absence == {Undefined, Str("")}

\* the bodies in which one field of `full` is absent or empty, or all are absent
Lacking(full) ==
    {[f \in DOMAIN full |-> IF f = g THEN a ELSE full[f]] : g \in DOMAIN full, a \in Absence}
        \cup {[f \in DOMAIN full |-> Undefined]}

DatabasesBodies ==
    {[notionToken |-> Str("t")], [notionToken |-> Str("t2")]}
        \cup Lacking([notionToken |-> Str("t")])

PostsBodies ==
    {[notionToken |-> Str("t"), databaseId |-> Str("db1")],
     [notionToken |-> Str("t2"), databaseId |-> Str("db1")]}
        \cup Lacking([notionToken |-> Str("t"), databaseId |-> Str("db1")])

UpdateBodies ==
    {[notionToken |-> Str("t"), pageId |-> Str("p1"), newDate |-> Str("2024-05-01")],
     [notionToken |-> Str("t2"), pageId |-> Str("p1"), newDate |-> Str("2024-05-01")],
     [notionToken |-> Str("t"), pageId |-> Str("p1"), newDate |-> Str("2024-06-15")]}
        \cup Lacking([notionToken |-> Str("t"), pageId |-> Str("p1"),
                      newDate |-> Str("2024-05-01")])

\* an APIResponseError carries the upstream body; a transport error has none
ApiError == [t |-> "error", name |-> "APIResponseError", body |-> Str("unauthorized")]

NetworkError == [t |-> "error", name |-> "FetchError"]

\* anything can be thrown: an Error, or a value with no properties at all
ThrownValues == {ApiError, NetworkError, Undefined}

Rejected(e) == [t |-> "rejected", error |-> e]

Resolved(v) == [t |-> "resolved", value |-> v]

Pending == [t |-> "pending"]

SearchResults ==
    {<<>>,
     <<[id |-> Str("db1"), title |-> <<Frag("Roadmap")>>], [id |-> Str("db2"), title |-> <<>>]>>}

QueryResults ==
    {<<Page("p2", TitleProp(<<Frag("Launch")>>), UrlProp(Chars(ExampleUrl)),
             RichTextProp(<<>>), DateProp(DateValue("2024-05-01"))),
       Page("p1", Absent, Absent, Absent, DateProp(Null))>>,
     <<Page("p1", RichTextProp(<<Frag("Launch")>>), Absent, Absent, Absent)>>}

SearchOutcomes == {Rejected(e) : e \in ThrownValues} \cup {Resolved(r) : r \in SearchResults}

QueryOutcomes == {Rejected(e) : e \in ThrownValues} \cup {Resolved(r) : r \in QueryResults}

UpdateOutcomes == {Rejected(e) : e \in ThrownValues} \cup {Resolved(<<>>)}

\* the pages of the workspace, by id: each a bag of properties
InitialStore ==
    [p \in {"p1", "p2"} |->
        [n \in {"Headline", "Scheduled Date"} |->
            IF n = "Headline" THEN TitleProp(<<Frag("Launch")>>) ELSE DateProp(Null)]]

\* pages.update upstream: the named properties of the one page are replaced
UpstreamUpdate(s, args) ==
    LET id == args.page_id.v
    IN  IF id \notin DOMAIN s THEN s
        ELSE [s EXCEPT ![id] =
                [n \in DOMAIN s[id] \cup DOMAIN args.properties |->
                    IF n \in DOMAIN args.properties THEN args.properties[n] ELSE s[id][n]]]

-----------------------------------------------------------------------------
(* The three handlers.  A handler runs to its await in one step and from    *)
(* the settling of the awaited call to its end in a second one.             *)

Requests == 1..NumReq

NoRes == [status |-> 0]

Destructure(route, body) == [route |-> route, body |-> body]

\* res.status(status).json(body)
Respond(i, status, body) ==
    /\ res' = [res EXCEPT ![i] = [status |-> status, body |-> body]]
    /\ sent' = [sent EXCEPT ![i] = @ + 1]

\* return res.status(400).json({ error })
Reject400(i, route, body, message) ==
    /\ req' = [req EXCEPT ![i] = Destructure(route, body)]
    /\ Respond(i, 400, [error |-> message])
    /\ pc' = [pc EXCEPT ![i] = "done"]
    /\ UNCHANGED <<upstream, calls, log, store, alive>>

\* new Client({ auth }) and the call the handler awaits
Await(i, route, body, call) ==
    /\ req' = [req EXCEPT ![i] = Destructure(route, body)]
    /\ calls' = [calls EXCEPT ![i] = Append(@, call)]
    /\ pc' = [pc EXCEPT ![i] = "awaiting"]
    /\ UNCHANGED <<upstream, res, sent, log, store, alive>>

\* mutant of Catch: a failed call is issued once more before giving up
CatchRetries(i, error, label, message) ==
    IF Len(calls[i]) < 2
    THEN /\ calls' = [calls EXCEPT ![i] = Append(@, @[1])]
         /\ UNCHANGED <<pc, res, sent, log, alive>>
    ELSE /\ log' = [log EXCEPT ![i] = Append(@, [label |-> label, detail |-> Field(error, "body")])]
         /\ Respond(i, 500, [error |-> message])
         /\ pc' = [pc EXCEPT ![i] = "done"]
         /\ UNCHANGED <<alive, calls>>

\* catch (error) { console.error(label, error.body); res.status(500).json({ error }) }
\* error.body of null or undefined throws inside the catch block: the async
\* handler's promise rejects with nobody to handle it, no response is sent, and
\* the runtime either only warns or ends the process.
Catch(i, error, label, message) ==
    IF Nullish(error)
    THEN /\ pc' = [pc EXCEPT ![i] = "unhandled"]
         /\ \E exits \in BOOLEAN : alive' = ~exits
         /\ UNCHANGED <<res, sent, log, calls>>
    ELSE /\ log' = [log EXCEPT ![i] = Append(@, [label |-> label, detail |-> Field(error, "body")])]
         /\ Respond(i, 500, [error |-> message])
         /\ pc' = [pc EXCEPT ![i] = "done"]
         /\ UNCHANGED <<alive, calls>>

\* res.json(body) at the end of the try block
Reply(i, body) ==
    /\ Respond(i, 200, body)
    /\ pc' = [pc EXCEPT ![i] = "done"]
    /\ UNCHANGED <<log, alive, calls>>

SearchCall(body) ==
    [op |-> "search", auth |-> body.notionToken,
     args |-> [filter |-> [value |-> "database", property |-> "object"]]]

QueryCall(body) ==
    [op |-> "databases.query", auth |-> body.notionToken,
     args |-> [database_id |-> body.databaseId,
               sorts |-> <<[property |-> "Scheduled Date", direction |-> "ascending"]>>]]

\* mutant of UpdateCall: the date is written as a range ending on the same day
UpdateCallWithEnd(body) ==
    [op |-> "pages.update", auth |-> body.notionToken,
     args |-> [page_id |-> body.pageId,
               properties |-> [n \in {"Scheduled Date"} |->
                                 [date |-> [start |-> body.newDate, end |-> body.newDate]]]]]

UpdateCall(body) ==
    [op |-> "pages.update", auth |-> body.notionToken,
     args |-> [page_id |-> body.pageId,
               properties |-> [n \in {"Scheduled Date"} |-> [date |-> [start |-> body.newDate]]]]]

\* if (!notionToken)
DatabasesMissing(body) == Falsy(body.notionToken)

\* mutant of PostsMissing: the database id is not checked
PostsMissingTokenOnly(body) == Falsy(body.notionToken)

\* if (!notionToken || !databaseId)
PostsMissing(body) == Falsy(body.notionToken) \/ Falsy(body.databaseId)

\* if (!notionToken || !pageId || !newDate)
UpdateMissing(body) == Falsy(body.notionToken) \/ Falsy(body.pageId) \/ Falsy(body.newDate)

\* `Post ${pageId} updated to ${newDate}`
UpdateMessage(body) == "Post " \o body.pageId.v \o " updated to " \o body.newDate.v

GetDatabases(i, body) ==
    /\ alive /\ pc[i] = "idle"
    /\ IF DatabasesMissing(body)
       THEN Reject400(i, "get-databases", body, "Notion token is required.")
       ELSE Await(i, "get-databases", body, SearchCall(body))
    /\ UNCHANGED mapVars

GetDatabasesSettles(i, outcome) ==
    /\ alive /\ pc[i] = "awaiting" /\ req[i].route = "get-databases"
    /\ upstream' = [upstream EXCEPT ![i] = outcome]
    /\ IF outcome.t = "resolved"
       THEN Reply(i, Arr(JsonArray(MapDatabases(outcome.value))))
       ELSE Catch(i, outcome.error, "Error fetching databases:",
                  "Failed to fetch databases from Notion.")
    /\ UNCHANGED <<req, store, mapVars>>

GetPosts(i, body) ==
    /\ alive /\ pc[i] = "idle"
    /\ IF PostsMissing(body)
       THEN Reject400(i, "get-posts", body, "Notion token and Database ID are required.")
       ELSE Await(i, "get-posts", body, QueryCall(body))
    /\ UNCHANGED mapVars

GetPostsSettles(i, outcome) ==
    /\ alive /\ pc[i] = "awaiting" /\ req[i].route = "get-posts"
    /\ upstream' = [upstream EXCEPT ![i] = outcome]
    /\ IF outcome.t = "resolved"
       THEN LET posts == MapPosts(outcome.value)
            IN  IF IsThrew(posts)
                THEN Catch(i, posts, "Error fetching posts:",
                           "Failed to fetch posts from Notion.")
                ELSE Reply(i, Arr(JsonArray(posts)))
       ELSE Catch(i, outcome.error, "Error fetching posts:",
                  "Failed to fetch posts from Notion.")
    /\ UNCHANGED <<req, store, mapVars>>

UpdatePostDate(i, body) ==
    /\ alive /\ pc[i] = "idle"
    /\ IF UpdateMissing(body)
       THEN Reject400(i, "update-post-date", body, "Token, Page ID, and new date are required.")
       ELSE Await(i, "update-post-date", body, UpdateCall(body))
    /\ UNCHANGED mapVars

UpdatePostDateSettles(i, outcome) ==
    /\ alive /\ pc[i] = "awaiting" /\ req[i].route = "update-post-date"
    /\ upstream' = [upstream EXCEPT ![i] = outcome]
    /\ IF outcome.t = "resolved"
       THEN /\ store' = UpstreamUpdate(store, calls[i][Len(calls[i])].args)
            /\ Reply(i, [success |-> TRUE, message |-> UpdateMessage(req[i].body)])
       ELSE /\ store' = store
            /\ Catch(i, outcome.error, "Error updating post date:",
                     "Failed to update post date in Notion.")
    /\ UNCHANGED <<req, mapVars>>

ServerIdle ==
    /\ pc = [i \in Requests |-> "idle"]
    /\ req = [i \in Requests |-> [route |-> "none"]]
    /\ upstream = [i \in Requests |-> Pending]
    /\ res = [i \in Requests |-> NoRes]
    /\ sent = [i \in Requests |-> 0]
    /\ calls = [i \in Requests |-> <<>>]
    /\ log = [i \in Requests |-> <<>>]
    /\ store = InitialStore
    /\ alive = TRUE

Init ==
    /\ ServerIdle
    /\ response = NoResponse
    /\ mapped = NotMapped

Next ==
    \/ \E i \in Requests, body \in DatabasesBodies : GetDatabases(i, body)
    \/ \E i \in Requests, outcome \in SearchOutcomes : GetDatabasesSettles(i, outcome)
    \/ \E i \in Requests, body \in PostsBodies : GetPosts(i, body)
    \/ \E i \in Requests, outcome \in QueryOutcomes : GetPostsSettles(i, outcome)
    \/ \E i \in Requests, body \in UpdateBodies : UpdatePostDate(i, body)
    \/ \E i \in Requests, outcome \in UpdateOutcomes : UpdatePostDateSettles(i, outcome)

Spec == Init /\ [][Next]_vars

-----------------------------------------------------------------------------
(* SpecMap: the reshaping applied to one upstream response *)

InitMap ==
    /\ ServerIdle
    /\ response \in Responses
    /\ mapped = NotMapped

MapDatabasesStep ==
    /\ response.kind = "databases"
    /\ mapped = NotMapped
    /\ mapped' = Reshaped(response)
    /\ UNCHANGED <<response, serverVars>>

MapPostsStep ==
    /\ response.kind = "posts"
    /\ mapped = NotMapped
    /\ mapped' = Reshaped(response)
    /\ UNCHANGED <<response, serverVars>>

NextMap == MapDatabasesStep \/ MapPostsStep

SpecMap == InitMap /\ [][NextMap]_vars

-----------------------------------------------------------------------------
(* Properties of the server (Spec) *)

Required(route) ==
    CASE route = "get-databases" -> {"notionToken"}
      [] route = "get-posts" -> {"notionToken", "databaseId"}
      [] route = "update-post-date" -> {"notionToken", "pageId", "newDate"}
      [] OTHER -> {}

Received(i) == req[i].route # "none"

LacksField(i) == \E f \in Required(req[i].route) : req[i].body[f] \in {Undefined, Str("")}

Finished(i) == pc[i] \in {"done", "unhandled"}

\* C1: a request lacking a required field (absent or empty) is answered 400 with
\* an `error` field, and no upstream call is issued for it.
C1_MissingFieldIs400 ==
    \A i \in Requests :
        Received(i) /\ LacksField(i) =>
            /\ pc[i] = "done"
            /\ sent[i] = 1
            /\ res[i].status = 400
            /\ "error" \in DOMAIN res[i].body
            /\ calls[i] = <<>>
            /\ upstream[i] = Pending

C1_Witness ==
    /\ \E i \in Requests :
        /\ req[i].route = "update-post-date"
        /\ ~Falsy(req[i].body.notionToken) /\ ~Falsy(req[i].body.pageId)
        /\ req[i].body.newDate = Str("")
        /\ res[i].status = 400
    /\ \E i \in Requests :
        /\ req[i].route = "get-posts"
        /\ ~Falsy(req[i].body.notionToken)
        /\ req[i].body.databaseId = Undefined
        /\ res[i].status = 400

FailureMessage(route) ==
    CASE route = "get-databases" -> "Failed to fetch databases from Notion."
      [] route = "get-posts" -> "Failed to fetch posts from Notion."
      [] OTHER -> "Failed to update post date in Notion."

\* C2: whenever the upstream call rejects, with any thrown value, the request
\* is answered 500 with a body holding only the route's fixed `error` string.
C2_RejectionIsFixed500 ==
    \A i \in Requests :
        upstream[i].t = "rejected" =>
            res[i] = [status |-> 500, body |-> [error |-> FailureMessage(req[i].route)]]

UpstreamOp(route) ==
    CASE route = "get-databases" -> "search"
      [] route = "get-posts" -> "databases.query"
      [] OTHER -> "pages.update"

\* C3: a request that passes the presence check has issued exactly one upstream
\* operation, the one of its route, in every state from its await on: neither a
\* failure nor a success is followed by a second call.
C3_ExactlyOneUpstreamCall ==
    \A i \in Requests :
        Received(i) /\ ~LacksField(i) =>
            /\ Len(calls[i]) = 1
            /\ calls[i][1].op = UpstreamOp(req[i].route)

C3_Witness ==
    /\ \E i \in Requests :
        pc[i] = "done" /\ upstream[i] = Rejected(ApiError) /\ Len(calls[i]) = 1
    /\ \E i \in Requests :
        pc[i] = "done" /\ upstream[i].t = "resolved" /\ Len(calls[i]) = 1

IsUpdate(i) == req[i].route = "update-post-date" /\ ~LacksField(i)

ExpectedAcknowledgement(body) ==
    [success |-> TRUE,
     message |-> CASE body.pageId = Str("p1") /\ body.newDate = Str("2024-05-01")
                        -> "Post p1 updated to 2024-05-01"
                   [] body.pageId = Str("p1") /\ body.newDate = Str("2024-06-15")
                        -> "Post p1 updated to 2024-06-15"
                   [] OTHER -> "?"]

C9_CallAndAcknowledgement ==
    \A i \in Requests :
        IsUpdate(i) =>
            /\ Len(calls[i]) = 1
            /\ calls[i][1].op = "pages.update"
            /\ calls[i][1].args.page_id = req[i].body.pageId
            /\ DOMAIN calls[i][1].args.properties = {"Scheduled Date"}
            /\ DOMAIN calls[i][1].args.properties["Scheduled Date"] = {"date"}
            /\ DOMAIN calls[i][1].args.properties["Scheduled Date"].date = {"start"}
            /\ calls[i][1].args.properties["Scheduled Date"].date.start = req[i].body.newDate
            /\ upstream[i].t = "resolved" =>
                   /\ res[i] = [status |-> 200, body |-> ExpectedAcknowledgement(req[i].body)]
                   /\ \A j \in Requests :
                        IsUpdate(j) /\ upstream[j].t = "resolved" /\ req[j].body = req[i].body
                            => res[j] = res[i]

\* the step in which request i's update settles successfully
UpdateSucceeds(i) ==
    IsUpdate(i) /\ pc[i] = "awaiting" /\ pc'[i] = "done" /\ upstream'[i].t = "resolved"

C9_OnlyTheDateIsWritten ==
    /\ \A i \in Requests :
        UpdateSucceeds(i) =>
            LET id == req[i].body.pageId.v
                written == [date |-> [start |-> req[i].body.newDate]]
            IN  /\ store'[id]["Scheduled Date"] = written
                /\ \A n \in DOMAIN store[id] \ {"Scheduled Date"} : store'[id][n] = store[id][n]
                /\ DOMAIN store'[id] = DOMAIN store[id]
                /\ \A p \in DOMAIN store \ {id} : store'[p] = store[p]
                /\ DOMAIN store' = DOMAIN store
                /\ store[id]["Scheduled Date"] = written => store' = store
    /\ (\A i \in Requests : ~UpdateSucceeds(i)) => store' = store

\* C9: update_post_date with its three fields present issues one update of the
\* record page_id that sets only "Scheduled Date", to a date with start =
\* new_date and no end; on success the reply is {success: true, message: "Post
\* <page_id> updated to <new_date>"}, the same for every call with the same
\* arguments, and a repeated call leaves the record as the first one left it.
C9_UpdateSetsOnlyTheDate == []C9_CallAndAcknowledgement /\ [][C9_OnlyTheDateIsWritten]_vars

C9_Witness ==
    /\ \A i \in {1, 2} :
        /\ pc[i] = "done"
        /\ req[i] = Destructure("update-post-date",
                                [notionToken |-> Str("t"), pageId |-> Str("p1"),
                                 newDate |-> Str("2024-05-01")])
        /\ upstream[i].t = "resolved"
        /\ res[i].body.message = "Post p1 updated to 2024-05-01"
    /\ store["p1"]["Scheduled Date"] = [date |-> [start |-> Str("2024-05-01")]]

\* C10: under any interleaving every request whose handler has ended has
\* received exactly one response, and two requests with the same body and the
\* same upstream outcome have received the same response.
C10_OneResponseOwnInputsOnly ==
    \A i \in Requests :
        Finished(i) =>
            /\ sent[i] = 1
            /\ \A j \in Requests :
                 (/\ Finished(j)
                  /\ req[j].route = req[i].route
                  /\ req[j].body = req[i].body
                  /\ upstream[j].t = upstream[i].t
                  /\ upstream[j] = upstream[i]) => res[j] = res[i]

-----------------------------------------------------------------------------
(* Properties of the reshaping (SpecMap) *)

Reshaping(kind) == response.kind = kind /\ mapped.t = "json"

Results == 1..Len(response.results)

\* C4: the `date` of every returned PostRecord is a string or null, never
\* undefined and never missing from the record.
C4_DateIsStringOrNull ==
    Reshaping("posts") =>
        \A k \in Results :
            /\ mapped.raw[k].date.t \in {"string", "null"}
            /\ "date" \in DOMAIN mapped.body[k]

\* what C5 says of a title or rich-text property
TextOf(properties, name, type) ==
    IF name \notin DOMAIN properties THEN Null
    ELSE IF properties[name][type] = <<>> THEN Str("")
    ELSE properties[name][type][1].plain_text

\* C5: for the title and rich-text kinds an absent property gives null, a
\* present one with no fragments gives '', and a present one with fragments
\* gives the plain text of the first.
C5_NullAndEmptyKeptApart ==
    Reshaping("posts") =>
        \A k \in Results :
            LET properties == response.results[k].properties
            IN  /\ "headline" \in DOMAIN mapped.body[k]
                /\ "caption" \in DOMAIN mapped.body[k]
                /\ mapped.body[k].headline = TextOf(properties, "Headline", "title")
                /\ mapped.body[k].caption = TextOf(properties, "Caption", "rich_text")

C5_Witness ==
    /\ Reshaping("posts")
    /\ Len(response.results) = 1
    /\ "Headline" \notin DOMAIN response.results[1].properties
    /\ "Caption" \in DOMAIN response.results[1].properties
    /\ response.results[1].properties["Caption"].rich_text = <<>>
    /\ mapped.body[1].headline = Null
    /\ mapped.body[1].caption = Str("")

\* the "Media" URL of a property bag, '' when there is none
UrlText(properties) ==
    IF "Media" \in DOMAIN properties /\ properties["Media"].url.t = "string"
    THEN properties["Media"].url.chars
    ELSE <<>>

\* the segments of text between commas that hold a character other than a space:
\* each by the position of the comma before it (0 for the first)
KeptSegments(text) ==
    LET commas == {i \in 1..Len(text) : text[i] = ","}
        stop(b) == IF \E c \in commas : c > b
                   THEN CHOOSE c \in commas : c > b /\ \A d \in commas : d > b => c <= d
                   ELSE Len(text) + 1
    IN  {b \in {0} \cup commas : \E j \in (b + 1)..(stop(b) - 1) : text[j] # " "}

\* the segment after position b without its leading and trailing spaces
Trimmed(text, b) ==
    LET commas == {i \in 1..Len(text) : text[i] = ","}
        stop == IF \E c \in commas : c > b
                THEN CHOOSE c \in commas : c > b /\ \A d \in commas : d > b => c <= d
                ELSE Len(text) + 1
        inked == {j \in (b + 1)..(stop - 1) : text[j] # " "}
        lo == CHOOSE j \in inked : \A m \in inked : j <= m
        hi == CHOOSE j \in inked : \A m \in inked : j >= m
    IN  SubSeq(text, lo, hi)

\* C6: `media` holds, in order, the comma-separated segments of the "Media" URL,
\* trimmed, without the empty ones: every element is non-empty and neither
\* starts nor ends with whitespace; no "Media", or a null URL, gives [].
C6_MediaSplitAndTrimmed ==
    Reshaping("posts") =>
        \A k \in Results :
            LET text == UrlText(response.results[k].properties)
                kept == KeptSegments(text)
                media == mapped.body[k].media.items
            IN  /\ Len(media) = Cardinality(kept)
                /\ \A b \in kept :
                     media[Cardinality({c \in kept : c <= b})] = Trimmed(text, b)
                /\ \A n \in 1..Len(media) :
                     /\ media[n] # <<>>
                     /\ media[n][1] # " " /\ media[n][Len(media[n])] # " "
                     /\ \A j \in 1..Len(media[n]) : media[n][j] # ","
                /\ text = <<>> => media = <<>>

C6_Witness ==
    /\ Reshaping("posts")
    /\ Len(response.results) = 1
    /\ UrlText(response.results[1].properties) = ExampleUrl
    /\ mapped.body[1].media.items = << <<"a">>, <<"b">> >>

\* C7 as stated: the title is the first fragment's plain text whenever the
\* title array is non-empty, and "Untitled Database" exactly when it is empty.
C7_DefaultExactlyWhenEmpty ==
    Reshaping("databases") =>
        \A k \in Results :
            LET title == response.results[k].title
            IN  /\ title # <<>> => mapped.body[k].title = title[1].plain_text
                /\ mapped.body[k].title = Str("Untitled Database") <=> title = <<>>

\* C7, amended: the title is the first fragment's plain text whenever the title
\* array is non-empty and that text is not empty, and "Untitled Database" when
\* the array is empty or the first fragment's plain text is empty.
C7_DefaultWhenNoTitleText ==
    Reshaping("databases") =>
        \A k \in Results :
            LET title == response.results[k].title
            IN  mapped.body[k].title =
                    IF title = <<>> \/ title[1].plain_text = Str("")
                    THEN Str("Untitled Database")
                    ELSE title[1].plain_text

C7_Witness ==
    /\ Reshaping("databases")
    /\ Len(response.results) = 2
    /\ response.results[1].title = <<Frag("")>>
    /\ mapped.body[1].title = Str("Untitled Database")
    /\ response.results[2].title = <<Frag("Roadmap"), Frag("2024")>>
    /\ mapped.body[2].title = Str("Roadmap")

\* a result the map callback can reshape: a "Headline" that is a title and a
\* "Caption" that is rich text, where there is one
Reshapable(result) ==
    response.kind = "posts" =>
        /\ "Headline" \in DOMAIN result.properties => "title" \in DOMAIN result.properties["Headline"]
        /\ "Caption" \in DOMAIN result.properties => "rich_text" \in DOMAIN result.properties["Caption"]

====
